---- MODULE Spec2Model ----
(***************************************************************************)
(* Model of the notebook ogc-code-sprint-data-integration.ipynb: the raster *)
(* aggregation into grid cells (aggregate), the NDVI normalisation, the     *)
(* census summary per cell and the two left-merge/dropna joins.             *)
(*                                                                          *)
(* Numbers: pixel values and census counts are integers; every float the    *)
(* notebook computes (means, ratios, normalised values) is kept as an exact *)
(* fraction [n, d] in lowest terms with d > 0, and the IEEE results of a    *)
(* division by zero as d = 0: NaN = 0/0, +inf = 1/0, -inf = -1/0.  Rounding *)
(* of binary floating point is not modelled.                                *)
(***************************************************************************)
EXTENDS Integers, Sequences, FiniteSets, TLC

VARIABLES
  pc,               \* the statement of the notebook that runs next
  array,            \* aggregate: the decoded band, a sequence of rows of pixels
  transform,        \* aggregate: the affine transform [a, b, c, d, e, f]
  nodata,           \* aggregate: the no-data value the open dataset declares
  field,            \* aggregate: the name of the value column
  row, col,         \* aggregate: the loop indices
  values,           \* aggregate: the list of (h3_index, value) tuples
  result,           \* aggregate: the frame it returns
  ndvi_df,          \* notebook globals
  population_data,
  bel_pop_density,
  df,
  shard,            \* partitioned aggregation: worker -> (cell -> [sum, count])
  visited,          \* partitioned aggregation: pixels already accumulated
  unmerged,         \* partitioned aggregation: workers whose map is not merged yet
  merged            \* partitioned aggregation: the merged map, then the result

vars == <<pc, array, transform, nodata, field, row, col, values, result, ndvi_df,
          population_data, bel_pop_density, df, shard, visited, unmerged, merged>>

aggVars == <<array, transform, nodata, field, row, col, values, result>>
shardVars == <<shard, visited, unmerged, merged>>

-----------------------------------------------------------------------------
(* Bounds of the model and the input domains.                               *)

MaxPixels == 3
MaxRecords == 2
NumWorkers == 2
resolution == 7

PixelValues == {1, 3, 9}
PopPixelValues == {3, 9}

Shapes == {s \in (1..MaxPixels) \X (1..MaxPixels) : s[1] * s[2] <= MaxPixels}

PopShapes == {s \in Shapes : s[1] * s[2] <= MaxPixels - 1}

ArraysOf(shape, vals) == [1..shape[1] -> [1..shape[2] -> vals]]

Transforms == {[a |-> sz, b |-> 0, c |-> c0, d |-> 0, e |-> 0 - sz, f |-> 7] :
                 sz \in {1, 2}, c0 \in {0, 1}}

Rasters(file) ==
  IF file = "ndvi.tif"
    THEN {[array |-> ar, transform |-> t, nodata |-> 9] :
            ar \in UNION {ArraysOf(s, PixelValues) : s \in Shapes}, t \in Transforms}
    ELSE {[array |-> ar, transform |-> t, nodata |-> 9] :
            ar \in UNION {ArraysOf(s, PopPixelValues) : s \in PopShapes},
            t \in {t \in Transforms : t.c = 0}}

Points == {<<0, 7>>, <<2, 7>>}
Counts == {[T |-> 10, M |-> 4, F |-> 6, EMP |-> 3],
           [T |-> 20, M |-> 11, F |-> 9, EMP |-> 7],
           [T |-> 0, M |-> 0, F |-> 0, EMP |-> 0]}
CensusRecords == {[geometry |-> p, T |-> k.T, M |-> k.M, F |-> k.F, EMP |-> k.EMP] :
                    p \in Points, k \in Counts}
CensusFiles == UNION {[1..n -> CensusRecords] : n \in 0..MaxRecords}

-----------------------------------------------------------------------------
(* Float arithmetic as exact fractions.                                     *)

Abs(x) == IF x < 0 THEN 0 - x ELSE x
Sign(x) == IF x < 0 THEN 0 - 1 ELSE IF x > 0 THEN 1 ELSE 0

RECURSIVE Gcd(_, _)
Gcd(x, y) == IF y = 0 THEN x ELSE Gcd(y, x % y)

NaN == [n |-> 0, d |-> 0]

\* the float n / d of two integers, as Python's and numpy's division gives it
Float(n, d) ==
  IF d = 0 THEN [n |-> Sign(n), d |-> 0]
  ELSE LET g == Gcd(Abs(n), Abs(d))
           s == Sign(d)
       IN [n |-> (s * n) \div g, d |-> (s * d) \div g]

IsFinite(x) == x.d # 0

FSub(x, y) ==
  IF x = NaN \/ y = NaN THEN NaN
  ELSE IF IsFinite(x) /\ IsFinite(y) THEN Float(x.n * y.d - y.n * x.d, x.d * y.d)
  ELSE IF ~IsFinite(x) /\ ~IsFinite(y) THEN (IF x.n = y.n THEN NaN ELSE x)
  ELSE IF ~IsFinite(x) THEN x ELSE [n |-> 0 - y.n, d |-> 0]

FDiv(x, y) ==
  IF x = NaN \/ y = NaN THEN NaN
  ELSE IF IsFinite(x) /\ IsFinite(y) THEN Float(x.n * y.d, x.d * y.n)
  ELSE IF ~IsFinite(x) /\ ~IsFinite(y) THEN NaN
  ELSE IF ~IsFinite(x) THEN [n |-> x.n * (IF y.n < 0 THEN 0 - 1 ELSE 1), d |-> 0]
  ELSE Float(0, 1)

FLe(x, y) == x.n * y.d <= y.n * x.d

-----------------------------------------------------------------------------
(* Frames: [columns, rows], rows a sequence of records over the columns.    *)

Frame(cols, rws) == [columns |-> cols, rows |-> rws]
Unset == Frame({}, <<>>)

FloatColumns == {"EMP_PERC", "ndvi", "population_density"}

Keys(rws) == {rws[i].h3_index : i \in DOMAIN rws}

\* h3 cell identifiers are compared as pandas sorts the group keys
CellLess(x, y) == x[1] < y[1] \/ (x[1] = y[1] /\ x[2] < y[2])

RECURSIVE SortedKeys(_)
SortedKeys(S) ==
  IF S = {} THEN <<>>
  ELSE LET k == CHOOSE x \in S : \A y \in S \ {x} : CellLess(x, y)
       IN <<k>> \o SortedKeys(S \ {k})

-----------------------------------------------------------------------------
(* The grid indexer and the raster aggregation.                             *)

\* h3.latlng_to_cell: a deterministic partition of the plane into cells whose
\* span halves with each resolution step (span 2 at resolution 7)
latlng_to_cell(lat, lon, res) ==
  LET span == 2 ^ (8 - res) IN <<lat \div span, lon \div span>>

\* transform * (col, row): (lon, lat) of the pixel's upper-left corner
Apply(t, c, r) == <<t.a * c + t.b * r + t.c, t.d * c + t.e * r + t.f>>

PixelCell(t, r, c, res) ==
  LET lonlat == Apply(t, c, r) IN latlng_to_cell(lonlat[2], lonlat[1], res)

NRows(ar) == Len(ar)
NCols(ar) == Len(ar[1])

RECURSIVE SumOf(_, _)
SumOf(vs, k) ==
  IF vs = <<>> THEN 0
  ELSE (IF Head(vs)[1] = k THEN Head(vs)[2] ELSE 0) + SumOf(Tail(vs), k)

CountOfAltDistinct(vs, k) == Cardinality({vs[i][2] : i \in {j \in DOMAIN vs : vs[j][1] = k}})
CountOf(vs, k) == Cardinality({i \in DOMAIN vs : vs[i][1] = k})

\* the mean of one group
GroupMeanAltSum(vs, k) == Float(SumOf(vs, k), 1)
GroupMean(vs, k) == Float(SumOf(vs, k), CountOf(vs, k))

\* pd.DataFrame(values, columns=['h3_index', field])
\*   .groupby('h3_index', as_index=False).mean()
GroupByMean(vs, fld) ==
  LET ks == SortedKeys({vs[i][1] : i \in DOMAIN vs})
  IN Frame({"h3_index", fld},
           [i \in DOMAIN ks |-> ("h3_index" :> ks[i]) @@ (fld :> GroupMean(vs, ks[i]))])

AggOpen ==
  /\ pc \in {"ndvi_open", "pop_open"}
  /\ \E src \in Rasters(IF pc = "ndvi_open" THEN "ndvi.tif" ELSE "pop_density_bel.tif") :
       /\ array' = src.array
       /\ transform' = src.transform
       /\ nodata' = src.nodata
  /\ field' = IF pc = "ndvi_open" THEN "ndvi" ELSE "population_density"
  /\ row' = 0
  /\ col' = 0
  /\ values' = <<>>
  /\ pc' = IF pc = "ndvi_open" THEN "ndvi_loop" ELSE "pop_loop"
  /\ UNCHANGED <<result, ndvi_df, population_data, bel_pop_density, df, shardVars>>

AggPixel ==
  /\ pc \in {"ndvi_loop", "pop_loop"}
  /\ row < NRows(array)
  /\ values' = Append(values, <<PixelCell(transform, row, col, resolution),
                                array[row + 1][col + 1]>>)
  /\ IF col + 1 < NCols(array)
       THEN col' = col + 1 /\ row' = row
       ELSE col' = 0 /\ row' = row + 1
  /\ UNCHANGED <<pc, array, transform, nodata, field, result, ndvi_df,
                 population_data, bel_pop_density, df, shardVars>>

AggGroup ==
  /\ pc \in {"ndvi_loop", "pop_loop"}
  /\ row = NRows(array)
  /\ result' = GroupByMean(values, field)
  /\ pc' = IF pc = "ndvi_loop" THEN "ndvi_return" ELSE "pop_return"
  /\ UNCHANGED <<array, transform, nodata, field, row, col, values, ndvi_df,
                 population_data, bel_pop_density, df, shardVars>>

\* the locals of a call that has returned
NoCall ==
  /\ array' = <<>>
  /\ transform' = <<>>
  /\ nodata' = 0
  /\ field' = ""
  /\ row' = 0
  /\ col' = 0
  /\ values' = <<>>
  /\ result' = Unset

\* ndvi_df = aggregate(ndvi, ...): the call returns, its locals are gone
AssignNdvi ==
  /\ pc = "ndvi_return"
  /\ ndvi_df' = result
  /\ NoCall
  /\ pc' = "normalise"
  /\ UNCHANGED <<population_data, bel_pop_density, df, shardVars>>

-----------------------------------------------------------------------------
(* The NDVI normalisation.                                                  *)

RECURSIVE ColMin(_, _)
ColMin(rws, c) ==
  IF Len(rws) = 1 THEN rws[1][c]
  ELSE LET m == ColMin(Tail(rws), c)
       IN IF FLe(rws[1][c], m) THEN rws[1][c] ELSE m

RECURSIVE ColMax(_, _)
ColMax(rws, c) ==
  IF Len(rws) = 1 THEN rws[1][c]
  ELSE LET m == ColMax(Tail(rws), c)
       IN IF FLe(m, rws[1][c]) THEN rws[1][c] ELSE m

RescaleAltByMax(v, lo, hi) == FDiv(FSub(v, lo), hi)
Rescale(v, lo, hi) == FDiv(FSub(v, lo), FSub(hi, lo))

\* frame[c] = (frame[c] - frame[c].min()) / (frame[c].max() - frame[c].min())
MinMaxScale(frame, c) ==
  IF frame.rows = <<>> THEN frame
  ELSE LET lo == ColMin(frame.rows, c)
           hi == ColMax(frame.rows, c)
       IN Frame(frame.columns,
                [i \in DOMAIN frame.rows |->
                   [frame.rows[i] EXCEPT ![c] = Rescale(@, lo, hi)]])

NormaliseNdvi ==
  /\ pc = "normalise"
  /\ ndvi_df' = MinMaxScale(ndvi_df, "ndvi")
  /\ pc' = "load_census"
  /\ UNCHANGED <<aggVars, population_data, bel_pop_density, df, shardVars>>

-----------------------------------------------------------------------------
(* The census summary per cell.                                             *)

\* population_data = load_population_data(census)
LoadCensus ==
  /\ pc = "load_census"
  /\ \E recs \in CensusFiles :
       population_data' = Frame({"geometry", "T", "M", "F", "EMP"}, recs)
  /\ pc' = "assign_h3"
  /\ UNCHANGED <<aggVars, ndvi_df, bel_pop_density, df, shardVars>>

\* population_data['h3_index'] = population_data.geometry.apply(...): the
\* column is added to the frame passed in, and that same frame is returned
assign_h3_to_population(frame, res) ==
  Frame(frame.columns \cup {"h3_index"},
        [i \in DOMAIN frame.rows |->
           frame.rows[i] @@
           ("h3_index" :> latlng_to_cell(frame.rows[i].geometry[2],
                                         frame.rows[i].geometry[1], res))])

AssignH3 ==
  /\ pc = "assign_h3"
  /\ population_data' = assign_h3_to_population(population_data, resolution)
  /\ pc' = "sum_by_cell"
  /\ UNCHANGED <<aggVars, ndvi_df, bel_pop_density, df, shardVars>>

RECURSIVE ColSum(_, _, _)
ColSum(rws, k, c) ==
  IF rws = <<>> THEN 0
  ELSE (IF Head(rws).h3_index = k THEN Head(rws)[c] ELSE 0) + ColSum(Tail(rws), k, c)

RECURSIVE ColCount(_, _)
ColCount(rws, k) ==
  IF rws = <<>> THEN 0
  ELSE (IF Head(rws).h3_index = k THEN 1 ELSE 0) + ColCount(Tail(rws), k)

GroupTotalAltMean(rws, k, c) == ColSum(rws, k, c) \div ColCount(rws, k)
GroupTotal(rws, k, c) == ColSum(rws, k, c)

\* frame[["h3_index", "T", "M", "F", "EMP"]].groupby("h3_index", as_index=False).sum()
GroupBySum(frame) ==
  LET ks == SortedKeys(Keys(frame.rows))
  IN Frame({"h3_index", "T", "M", "F", "EMP"},
           [i \in DOMAIN ks |->
              [h3_index |-> ks[i],
               T |-> GroupTotal(frame.rows, ks[i], "T"),
               M |-> GroupTotal(frame.rows, ks[i], "M"),
               F |-> GroupTotal(frame.rows, ks[i], "F"),
               EMP |-> GroupTotal(frame.rows, ks[i], "EMP")]])

SumByCell ==
  /\ pc = "sum_by_cell"
  /\ population_data' = GroupBySum(population_data)
  /\ pc' = "emp_perc"
  /\ UNCHANGED <<aggVars, ndvi_df, bel_pop_density, df, shardVars>>

\* population_data["EMP_PERC"] = population_data["EMP"] * 100 / population_data["T"]
EmpPercOf(r) == Float(r.EMP * 100, r.T)

EmpPerc ==
  /\ pc = "emp_perc"
  /\ population_data' =
       Frame(population_data.columns \cup {"EMP_PERC"},
             [i \in DOMAIN population_data.rows |->
                population_data.rows[i] @@
                ("EMP_PERC" :> EmpPercOf(population_data.rows[i]))])
  /\ pc' = "pop_open"
  /\ UNCHANGED <<aggVars, ndvi_df, bel_pop_density, df, shardVars>>

\* bel_pop_density = aggregate(pop_dens, ...)
AssignPop ==
  /\ pc = "pop_return"
  /\ bel_pop_density' = result
  /\ NoCall
  /\ pc' = "merge_ndvi"
  /\ UNCHANGED <<ndvi_df, population_data, df, shardVars>>

-----------------------------------------------------------------------------
(* The joins.                                                               *)

Matches(rws, k) == SelectSeq(rws, LAMBDA r : r.h3_index = k)

RECURSIVE Flatten(_)
Flatten(ss) == IF ss = <<>> THEN <<>> ELSE Head(ss) \o Flatten(Tail(ss))

\* left.merge(right, on='h3_index', how='left'): the left rows in their order,
\* each once per right row of its key, or once with nulls when there is none
MergeLeft(left, right) ==
  LET extra == right.columns \ {"h3_index"}
      nulls == [c \in extra |-> NaN]
      joined(l) ==
        LET ms == Matches(right.rows, l.h3_index)
        IN IF ms = <<>> THEN <<l @@ nulls>>
           ELSE [j \in DOMAIN ms |-> l @@ [c \in extra |-> ms[j][c]]]
  IN Frame(left.columns \cup right.columns,
           Flatten([i \in DOMAIN left.rows |-> joined(left.rows[i])]))

IsNull(r, c) == c \in FloatColumns /\ r[c] = NaN

\* frame.dropna(): drops every row holding a null in any column
DropNa(frame) ==
  Frame(frame.columns,
        SelectSeq(frame.rows, LAMBDA r : \A c \in frame.columns : ~IsNull(r, c)))

MergeNdvi ==
  /\ pc = "merge_ndvi"
  /\ df' = DropNa(MergeLeft(population_data, ndvi_df))
  /\ pc' = "merge_pop"
  /\ UNCHANGED <<aggVars, ndvi_df, population_data, bel_pop_density, shardVars>>

MergePop ==
  /\ pc = "merge_pop"
  /\ df' = DropNa(MergeLeft(df, bel_pop_density))
  /\ pc' = "done"
  /\ UNCHANGED <<aggVars, ndvi_df, population_data, bel_pop_density, shardVars>>

-----------------------------------------------------------------------------
(* The notebook, top to bottom.                                             *)

Init ==
  /\ pc = "ndvi_open"
  /\ array = <<>>
  /\ transform = <<>>
  /\ nodata = 0
  /\ field = ""
  /\ row = 0
  /\ col = 0
  /\ values = <<>>
  /\ result = Unset
  /\ ndvi_df = Unset
  /\ population_data = Unset
  /\ bel_pop_density = Unset
  /\ df = Unset
  /\ shard = <<>>
  /\ visited = {}
  /\ unmerged = {}
  /\ merged = <<>>

Next ==
  \/ AggOpen
  \/ AggPixel
  \/ AggGroup
  \/ AssignNdvi
  \/ NormaliseNdvi
  \/ LoadCensus
  \/ AssignH3
  \/ SumByCell
  \/ EmpPerc
  \/ AssignPop
  \/ MergeNdvi
  \/ MergePop

Spec == Init /\ [][Next]_vars

-----------------------------------------------------------------------------
(* aggregate as one function of the opened dataset: the row-major pass.     *)

RECURSIVE PixelTuples(_, _, _, _)
\* the list `values` after the first n iterations of the two nested loops
PixelTuples(ar, t, res, n) ==
  IF n = 0 THEN <<>>
  ELSE LET r == (n - 1) \div NCols(ar)
           c == (n - 1) % NCols(ar)
       IN Append(PixelTuples(ar, t, res, n - 1),
                 <<PixelCell(t, r, c, res), ar[r + 1][c + 1]>>)

aggregate(ar, t, res, fld) ==
  GroupByMean(PixelTuples(ar, t, res, NRows(ar) * NCols(ar)), fld)

-----------------------------------------------------------------------------
(* The partitioned aggregation of the design: every pixel is accumulated    *)
(* by some worker into that worker's own (cell -> sum, count) map, in any   *)
(* order; the maps are then merged, one at a time in any order, by adding   *)
(* sums and counts per cell, and the means are taken from the merged map.   *)

Workers == 1..NumWorkers

Pixels(ar) == (0..(NRows(ar) - 1)) \X (0..(NCols(ar) - 1))

Accumulate(m, k, v) ==
  IF k \in DOMAIN m
    THEN [m EXCEPT ![k] = [sum |-> @.sum + v, count |-> @.count + 1]]
    ELSE m @@ (k :> [sum |-> v, count |-> 1])

MergeMaps(m1, m2) ==
  LET get(m, k) == IF k \in DOMAIN m THEN m[k] ELSE [sum |-> 0, count |-> 0]
  IN [k \in DOMAIN m1 \cup DOMAIN m2 |->
        [sum |-> get(m1, k).sum + get(m2, k).sum,
         count |-> get(m1, k).count + get(m2, k).count]]

MapMeans(m, fld) ==
  LET ks == SortedKeys(DOMAIN m)
  IN Frame({"h3_index", fld},
           [i \in DOMAIN ks |->
              ("h3_index" :> ks[i]) @@ (fld :> Float(m[ks[i]].sum, m[ks[i]].count))])

InitShard ==
  /\ pc = "shard_visit"
  /\ \E src \in Rasters("ndvi.tif") :
       /\ array = src.array
       /\ transform = src.transform
       /\ nodata = src.nodata
  /\ field = "ndvi"
  /\ row = 0
  /\ col = 0
  /\ values = <<>>
  /\ result = Unset
  /\ ndvi_df = Unset
  /\ population_data = Unset
  /\ bel_pop_density = Unset
  /\ df = Unset
  /\ shard = [w \in Workers |-> <<>>]
  /\ visited = {}
  /\ unmerged = Workers
  /\ merged = <<>>

ShardVisit ==
  /\ pc = "shard_visit"
  /\ \E w \in Workers, p \in Pixels(array) \ visited :
       /\ shard' = [shard EXCEPT ![w] =
                      Accumulate(@, PixelCell(transform, p[1], p[2], resolution),
                                 array[p[1] + 1][p[2] + 1])]
       /\ visited' = visited \cup {p}
  /\ UNCHANGED <<pc, aggVars, ndvi_df, population_data, bel_pop_density, df,
                 unmerged, merged>>

ShardMerge ==
  /\ pc = "shard_visit"
  /\ visited = Pixels(array)
  /\ \E w \in unmerged :
       /\ merged' = MergeMaps(merged, shard[w])
       /\ unmerged' = unmerged \ {w}
  /\ UNCHANGED <<pc, aggVars, ndvi_df, population_data, bel_pop_density, df,
                 shard, visited>>

ShardFinish ==
  /\ pc = "shard_visit"
  /\ visited = Pixels(array)
  /\ unmerged = {}
  /\ result' = MapMeans(merged, field)
  /\ pc' = "shard_done"
  /\ UNCHANGED <<array, transform, nodata, field, row, col, values, ndvi_df,
                 population_data, bel_pop_density, df, shardVars>>

NextShard ==
  \/ ShardVisit
  \/ ShardMerge
  \/ ShardFinish

SpecShard == InitShard /\ [][NextShard]_vars

\* the loop of the model is the row-major pass, and what it returns is aggregate
LoopIsRowMajor ==
  /\ pc \in {"ndvi_loop", "pop_loop"} =>
       values = PixelTuples(array, transform, resolution, row * NCols(array) + col)
  /\ pc \in {"ndvi_return", "pop_return"} =>
       result = aggregate(array, transform, resolution, field)

-----------------------------------------------------------------------------
(* Properties.  The sums below are taken over sets of pixels or of row      *)
(* indices, not along the lists the code builds.                            *)

CellAt(p) == PixelCell(transform, p[1], p[2], resolution)
ValueAt(p) == array[p[1] + 1][p[2] + 1]
CellsOf(ps) == {CellAt(p) : p \in ps}
InCell(ps, k) == {p \in ps : CellAt(p) = k}

RECURSIVE PixelSum(_)
PixelSum(ps) ==
  IF ps = {} THEN 0
  ELSE LET p == CHOOSE q \in ps : TRUE IN ValueAt(p) + PixelSum(ps \ {p})

\* the float x is the quotient num / den of two integers, den > 0
IsQuotient(x, num, den) == IsFinite(x) /\ x.n * den = num * x.d

RowsOf(frame, k) == {i \in DOMAIN frame.rows : frame.rows[i].h3_index = k}

\* frame has exactly one row per cell of ps, holding the mean of the pixels of
\* ps in that cell
IsMeanTable(frame, fld, ps) ==
  /\ frame.columns = {"h3_index", fld}
  /\ Keys(frame.rows) = CellsOf(ps)
  /\ \A k \in CellsOf(ps) : Cardinality(RowsOf(frame, k)) = 1
  /\ \A i \in DOMAIN frame.rows :
       LET mine == InCell(ps, frame.rows[i].h3_index)
       IN /\ mine # {}
          /\ IsQuotient(frame.rows[i][fld], PixelSum(mine), Cardinality(mine))

Returned == pc \in {"ndvi_return", "pop_return"}

\* C1: aggregate returns exactly one row per cell that some pixel maps to, and
\* the row holds the arithmetic mean of all the pixels of the cell, each counted
\* once; two pixels a, b alone in a cell give (a + b) / 2, and a raster of one
\* value v gives v in every row.
C1_AggregateMean ==
  Returned =>
    /\ IsMeanTable(result, field, Pixels(array))
    /\ \A i \in DOMAIN result.rows :
         LET mine == InCell(Pixels(array), result.rows[i].h3_index)
         IN /\ \A p, q \in mine :
                 (p # q /\ mine = {p, q}) =>
                   result.rows[i][field] = Float(ValueAt(p) + ValueAt(q), 2)
            /\ \A v \in PixelValues :
                 (\A p \in Pixels(array) : ValueAt(p) = v) =>
                   result.rows[i][field] = Float(v, 1)

\* a cell with the two pixels 1 and 3 got the row 2, beside a second cell
C1_Witness ==
  /\ pc = "ndvi_return"
  /\ Len(result.rows) >= 2
  /\ \E i \in DOMAIN result.rows :
       LET mine == InCell(Pixels(array), result.rows[i].h3_index)
       IN /\ Cardinality(mine) = 2
          /\ {ValueAt(p) : p \in mine} = {1, 3}
          /\ result.rows[i][field] = Float(2, 1)

Valid(ps) == {p \in ps : ValueAt(p) # nodata}

\* C2: a pixel holding the declared no-data value contributes to no cell's sum
\* or count: the rows are those of the cells with a valid pixel, each the mean
\* of the valid pixels alone, and a raster of no-data pixels gives no row.
C2_NoDataExcluded ==
  Returned => IsMeanTable(result, field, Valid(Pixels(array)))

RECURSIVE IndexSum(_, _, _)
\* the sum of column c over the rows of rws whose index is in S
IndexSum(rws, S, c) ==
  IF S = {} THEN 0
  ELSE LET i == CHOOSE j \in S : TRUE IN rws[i][c] + IndexSum(rws, S \ {i}, c)

\* C3: the census summary has one row per cell, each of T, M, F, EMP the sum
\* over the records of the cell, and EMP_PERC is then 100 * EMP / T of the sums.
C3_SumThenRatio ==
  [][/\ pc = "sum_by_cell" =>
         LET recs == population_data.rows
             out == population_data'
         IN /\ Keys(out.rows) = Keys(recs)
            /\ \A k \in Keys(recs) : Cardinality(RowsOf(out, k)) = 1
            /\ \A i \in DOMAIN out.rows :
                 \A c \in {"T", "M", "F", "EMP"} :
                   out.rows[i][c] =
                     IndexSum(recs, RowsOf(population_data, out.rows[i].h3_index), c)
     /\ pc = "emp_perc" =>
         LET old == population_data.rows
             new == population_data'.rows
         IN /\ Len(new) = Len(old)
            /\ \A i \in DOMAIN new :
                 /\ \A c \in {"h3_index", "T", "M", "F", "EMP"} : new[i][c] = old[i][c]
                 /\ old[i].T # 0 => IsQuotient(new[i].EMP_PERC, 100 * old[i].EMP, old[i].T)
                 /\ old[i].T = 0 => ~IsFinite(new[i].EMP_PERC)]_vars

\* the records (10, 3) and (20, 7) of one cell gave T = 30, EMP = 10, 33.3..%
C3_Witness ==
  /\ pc = "pop_open"
  /\ \E i \in DOMAIN population_data.rows :
       /\ population_data.rows[i].T = 30
       /\ population_data.rows[i].EMP = 10
       /\ population_data.rows[i].EMP_PERC = [n |-> 100, d |-> 3]

Restrict(r, cols) == [c \in cols |-> r[c]]

\* left's rows whose cell occurs in right, each once, with right's columns added
IsInnerJoin(out, left, right) ==
  LET keep == SelectSeq(left.rows, LAMBDA r : r.h3_index \in Keys(right.rows))
  IN /\ Len(out.rows) = Len(keep)
     /\ \A i \in DOMAIN out.rows :
          /\ Restrict(out.rows[i], left.columns) = keep[i]
          /\ \E j \in DOMAIN right.rows :
               Restrict(out.rows[i], right.columns) = right.rows[j]

\* C4: the join returns exactly the rows of left whose cell also occurs in
\* right, each once and extended with right's columns.
C4_JoinKeepsMatching ==
  pc = "merge_pop" => IsInnerJoin(df, population_data, ndvi_df)

\* C5: the two joins together return exactly the rows of the census summary
\* whose cell is present in all three tables, whichever raster table is joined
\* first.
C5_JoinsCompose ==
  pc = "done" =>
    LET all3 == Keys(population_data.rows) \cap Keys(ndvi_df.rows)
                  \cap Keys(bel_pop_density.rows)
        other == DropNa(MergeLeft(DropNa(MergeLeft(population_data, bel_pop_density)),
                                  ndvi_df))
    IN /\ Len(df.rows) = Len(SelectSeq(population_data.rows,
                                       LAMBDA r : r.h3_index \in all3))
       /\ Keys(df.rows) = all3
       /\ df.rows = other.rows

FAdd(x, y) == Float(x.n * y.d + y.n * x.d, x.d * y.d)
FMul(x, y) == Float(x.n * y.n, x.d * y.d)

IsColMin(rws, c, v) ==
  (\E i \in DOMAIN rws : rws[i][c] = v) /\ (\A i \in DOMAIN rws : FLe(v, rws[i][c]))
IsColMax(rws, c, v) ==
  (\E i \in DOMAIN rws : rws[i][c] = v) /\ (\A i \in DOMAIN rws : FLe(rws[i][c], v))

\* C6: when the minimum m and the maximum M of the column differ, every
\* normalised value lies in [0, 1], m becomes 0, M becomes 1, and
\* v' * (M - m) + m gives back the value v of every row.
C6_NormaliseRange ==
  [][pc = "normalise" =>
       LET old == ndvi_df.rows
           new == ndvi_df'.rows
       IN \A i, j \in DOMAIN old :
            (/\ IsColMin(old, "ndvi", old[i].ndvi)
             /\ IsColMax(old, "ndvi", old[j].ndvi)
             /\ old[i].ndvi # old[j].ndvi) =>
              /\ Len(new) = Len(old)
              /\ new[i].ndvi = Float(0, 1)
              /\ new[j].ndvi = Float(1, 1)
              /\ \A r \in DOMAIN new :
                   /\ new[r].h3_index = old[r].h3_index
                   /\ IsFinite(new[r].ndvi)
                   /\ FLe(Float(0, 1), new[r].ndvi)
                   /\ FLe(new[r].ndvi, Float(1, 1))
                   /\ FAdd(FMul(new[r].ndvi, FSub(old[j].ndvi, old[i].ndvi)),
                           old[i].ndvi) = old[r].ndvi]_vars

\* three cells were normalised to 0, to 1 and to a value strictly between
C6_Witness ==
  /\ pc = "load_census"
  /\ \E i, j, r \in DOMAIN ndvi_df.rows :
       /\ ndvi_df.rows[i].ndvi = Float(0, 1)
       /\ ndvi_df.rows[j].ndvi = Float(1, 1)
       /\ IsFinite(ndvi_df.rows[r].ndvi)
       /\ ndvi_df.rows[r].ndvi \notin {Float(0, 1), Float(1, 1)}

\* C7: a constant column is signalled, and no not-a-number produced by the
\* normalisation reaches the join.
C7_NoDegenerateIntoJoin ==
  pc = "merge_ndvi" => \A i \in DOMAIN ndvi_df.rows : ndvi_df.rows[i].ndvi # NaN

\* C8: whatever the split of the pixels over the workers, the order of the
\* visits and the order of the merges, the merged (sum, count) of every cell
\* and the means are those of the sequential row-major pass of aggregate.
C8_ShardsAgree ==
  pc = "shard_done" =>
    LET vs == PixelTuples(array, transform, resolution, NRows(array) * NCols(array))
    IN /\ result = aggregate(array, transform, resolution, field)
       /\ DOMAIN merged = {vs[i][1] : i \in DOMAIN vs}
       /\ \A k \in DOMAIN merged :
            /\ merged[k].sum = SumOf(vs, k)
            /\ merged[k].count = CountOf(vs, k)

\* two workers each held one pixel of the same cell, with different values,
\* and a second cell was touched
C8_Witness ==
  /\ pc = "shard_done"
  /\ \E k \in DOMAIN merged :
       /\ \A w \in {1, 2} : k \in DOMAIN shard[w]
       /\ shard[1][k].sum # shard[2][k].sum
       /\ merged[k].count = 2
  /\ Len(result.rows) >= 2

\* C9: in the pixel loop the intermediate state holds one entry per distinct
\* cell touched so far, not one per pixel visited.
C9_OneEntryPerCell ==
  pc \in {"ndvi_loop", "pop_loop"} =>
    Len(values) = Cardinality({values[i][1] : i \in DOMAIN values})

\* C10: every stage leaves its inputs as they were: the raster during
\* aggregate, the record set passed to assign_h3_to_population, the table the
\* normalisation is applied to, and both tables of each join.
C10_InputsUnchanged ==
  [][/\ pc \in {"ndvi_loop", "pop_loop"} => array' = array /\ transform' = transform
     /\ pc = "assign_h3" => population_data' = population_data
     /\ pc = "normalise" => ndvi_df' = ndvi_df
     /\ pc = "merge_ndvi" => population_data' = population_data /\ ndvi_df' = ndvi_df
     /\ pc = "merge_pop" => bel_pop_density' = bel_pop_density]_vars

====
